---- MODULE Spec2Model ----
(***************************************************************************)
(* Model of SonicScribe: the /api/generate request handler (POST) with     *)
(* payload validation, source normalisation, script generation, speech     *)
(* synthesis and its catch block, alone and with several invocations in    *)
(* progress; the HomePage form with handleSubmit; and the useAudioUrl      *)
(* hook with its object URLs.                                              *)
(*                                                                         *)
(* Strings whose only relevant features are their length and their         *)
(* surrounding whitespace are records [lead, body, trail]: the number of   *)
(* leading whitespace characters, the length of the trimmed core and the   *)
(* number of trailing whitespace characters.  Messages are sequences of    *)
(* text fragments, so that String.includes is a search.  An optional value *)
(* is a sequence of length 0 (absent/undefined) or 1.                      *)
(***************************************************************************)
EXTENDS Integers, Sequences, FiniteSets, TLC

\* one invocation of the handler
VARIABLES pc, body, apiKeySet, mode, voice, sourceText, origin, script,
          log, responses

\* several invocations of the handler in progress at once
VARIABLES reqs

\* the state of the HomePage component and its requests in flight
VARIABLES cMode, inputs, cVoice, loading, seenLoading, error, result,
          flights, submits, settled

\* the state of the useAudioUrl hook and the object URLs of the page
VARIABLES mounted, base64, url, updaters, effectDue, cleanup, objects

handlerVars == <<pc, body, mode, voice, sourceText, origin, script, log, responses>>

concVars == <<reqs>>

clientVars == <<cMode, inputs, cVoice, loading, seenLoading, error, result,
                flights, submits, settled>>

audioVars == <<mounted, base64, url, updaters, effectDue, cleanup, objects>>

vars == <<handlerVars, apiKeySet, concVars, clientVars, audioVars>>

----------------------------------------------------------------------------
(* Bounds of the model *)

\* how many submits of the form are accepted
MaxSubmits == 2
\* how many object URLs are created
MaxUrls == 3

\* longest run of whitespace padding around a text
MaxPad == 2
\* how far a text may exceed the minimum length
MaxExtra == 1
\* longest audio payload, in bytes
MaxAudio == 2

(* Program constants *)

\* content: z.string().min(50, ...) and sourceText.length < 50
MinLen == 50
\* voice: .min(2)
VoiceMin == 2
\* voice: .max(32)
VoiceMax == 32

----------------------------------------------------------------------------
(* Strings *)

Str(l, b, t) == [lead |-> l, body |-> b, trail |-> t]

EmptyStr == Str(0, 0, 0)

\* String.prototype.length
StrLen(s) == s.lead + s.body + s.trail

\* a trim that removes nothing
TrimKeepsPadding(s) == s

\* String.prototype.trim: an all-whitespace string trims to the empty string
Trim(s) == Str(0, s.body, 0)

None == <<>>

Some(v) == <<v>>

IsSome(o) == Len(o) = 1

\* String.prototype.includes on a message
Includes(message, fragment) == \E i \in DOMAIN message : message[i] = fragment

----------------------------------------------------------------------------
(* Messages *)

MsgContentMin == <<"Provide at least ", "50 characters", " of text.">>
MsgTextTooShort == <<"Please provide at least ", "50 characters", " of text.">>
MsgVoiceRegex == <<"Voice id must be alphanumeric or hyphenated">>
MsgVoiceMin == <<"String must contain at least 2 character(s)">>
MsgVoiceMax == <<"String must contain at most 32 character(s)">>
MsgModeRequired == <<"Required">>
MsgModeEnum == <<"Invalid enum value">>
MsgInvalidUrl == <<"Invalid url">>
MsgExpectedObject == <<"Expected object">>
MsgInvalidPayload == <<"Invalid request payload.">>
MsgMissingUrl == <<"Missing ", "URL", " for webpage mode.">>
MsgMissingVideoUrl == <<"Missing ", "video URL", " for YouTube mode.">>
MsgNoSource == <<"Unable to derive source material for the podcast.">>
MsgNoScript == <<"Failed to generate a script. Try again with different source material.">>
MsgUnexpected == <<"Unexpected server error.">>
MsgJsonSyntax == <<"Unexpected token in JSON">>
MsgMissingKey == <<"Missing ", "OPENAI_API_KEY", " environment variable.">>
MsgNetwork == <<"Failed to fetch", " the resource">>
MsgUpstream == <<"Upstream request was rejected">>
MsgNoTranscript == <<"Transcript is unavailable for this video">>

\* a thrown value: an Error with a message, or something that is not an Error
ErrorOf(m) == [isError |-> TRUE, message |-> m]

NonError == [isError |-> FALSE, message |-> <<>>]

----------------------------------------------------------------------------
(* Request bodies *)

Modes == {"text", "url", "video"}

ValidUrls == {"https://example.com/post", "https://youtu.be/abc"}

\* a voice is known by its length and the classes of characters it contains
Voice(n, cs) == [len |-> n, classes |-> cs]

Alloy == Voice(5, {"lower"})

VoiceInputs ==
    { None, Some(Voice(VoiceMin, {"lower"})), Some(Voice(VoiceMax, {"lower", "hyphen"})),
      Some(Voice(VoiceMin - 1, {"lower"})), Some(Voice(VoiceMax + 1, {"lower"})),
      Some(Voice(5, {"upper"})), Some(Voice(5, {"lower", "digit"})) }

Pads == {0, MaxPad}

ContentInputs ==
    { None } \cup
    { Some(Str(l, b, t)) : l \in Pads, t \in {0, 1},
                           b \in {0, MinLen - 1, MinLen, MinLen + MaxExtra} }

UrlInputs == { None, Some("not a url") } \cup { Some(u) : u \in ValidUrls }

Payloads ==
    [ mode : { None, Some("audio") } \cup { Some(m) : m \in Modes },
      voice : VoiceInputs,
      content : ContentInputs,
      url : UrlInputs,
      videoUrl : UrlInputs ]

NoPayload ==
    [ mode |-> None, voice |-> None, content |-> None, url |-> None,
      videoUrl |-> None ]

\* what request.json() finds: malformed JSON, JSON that is not an object,
\* or an object with the five fields the schema looks at
Bodies ==
    { [syntax |-> s, json |-> NoPayload] : s \in {"malformed", "nonobject"} }
    \cup { [syntax |-> "object", json |-> p] : p \in Payloads }

----------------------------------------------------------------------------
(* requestSchema *)

ModeIssues(m) ==
    IF ~IsSome(m) THEN <<MsgModeRequired>>
    ELSE IF m[1] \notin Modes THEN <<MsgModeEnum>>
    ELSE <<>>

VoiceMatchesRegex(v) == v.len >= 1 /\ v.classes \subseteq {"lower", "upper", "hyphen"}

\* a voice check without the upper length limit
VoiceIssuesNoMax(v) ==
    IF ~IsSome(v) THEN <<>>
    ELSE (IF v[1].len < VoiceMin THEN <<MsgVoiceMin>> ELSE <<>>)
         \o (IF ~VoiceMatchesRegex(v[1]) THEN <<MsgVoiceRegex>> ELSE <<>>)

\* voice: z.string().min(2).max(32).regex(/^[a-z-]+$/i, ...)
VoiceIssues(v) ==
    IF ~IsSome(v) THEN <<>>
    ELSE (IF v[1].len < VoiceMin THEN <<MsgVoiceMin>> ELSE <<>>)
         \o (IF v[1].len > VoiceMax THEN <<MsgVoiceMax>> ELSE <<>>)
         \o (IF ~VoiceMatchesRegex(v[1]) THEN <<MsgVoiceRegex>> ELSE <<>>)

ContentIssues(c) ==
    IF IsSome(c) /\ StrLen(c[1]) < MinLen THEN <<MsgContentMin>> ELSE <<>>

UrlIssues(u) ==
    IF IsSome(u) /\ u[1] \notin ValidUrls THEN <<MsgInvalidUrl>> ELSE <<>>

\* parsed.error.issues, in the order of the schema's keys
Issues(b) ==
    IF b.syntax # "object" THEN <<MsgExpectedObject>>
    ELSE ModeIssues(b.json.mode) \o VoiceIssues(b.json.voice)
         \o ContentIssues(b.json.content) \o UrlIssues(b.json.url)
         \o UrlIssues(b.json.videoUrl)

\* the message of the last issue instead of the first
LastIssueMessage(issues) ==
    IF Len(issues) > 0 THEN issues[Len(issues)] ELSE MsgInvalidPayload

\* firstIssue?.message ?? "Invalid request payload."
FirstIssueMessage(issues) ==
    IF Len(issues) > 0 THEN issues[1] ELSE MsgInvalidPayload

\* parsed.data.voice, with the schema's default
ParsedVoice(b) == IF IsSome(b.json.voice) THEN b.json.voice[1] ELSE Alloy

----------------------------------------------------------------------------
(* Collaborators: extractFromUrl, extractFromYouTube, getOpenAIClient and   *)
(* the two remote services.  Each call either returns or throws.            *)

\* what an extractor returns: a text of at least the minimum length; the
\* handler also guards against an empty result, which is admitted here
ExtractorReturns ==
    { EmptyStr } \cup { Str(0, MinLen + x, 0) : x \in {0, MaxExtra} }

\* what an extractor throws: the source is unreachable or has no transcript
ExtractorThrows == { ErrorOf(MsgNetwork), ErrorOf(MsgNoTranscript) }

\* getOpenAIClient fails when the credentials are not configured
ClientThrows(keySet) == IF keySet THEN None ELSE Some(ErrorOf(MsgMissingKey))

\* failures of a remote call: network fault, rejection, or a thrown non-Error
ServiceThrows == { ErrorOf(MsgNetwork), ErrorOf(MsgUpstream), NonError }

\* scriptResponse.output_text: undefined, or a text with or without padding
OutputTexts ==
    { None } \cup { Some(Str(l, b, t)) : l \in Pads, t \in {0, 1}, b \in {0, 1, 1 + MaxExtra} }

ByteVals == {0, 77, 255}

RECURSIVE SeqsUpTo(_)
SeqsUpTo(n) ==
    IF n = 0 THEN { <<>> }
    ELSE LET shorter == SeqsUpTo(n - 1)
         IN  shorter \cup { Append(q, v) : q \in { x \in shorter : Len(x) = n - 1 }, v \in ByteVals }

\* what speech.arrayBuffer() yields
AudioPayloads == SeqsUpTo(MaxAudio)

Pad64 == 64

\* Buffer.toString("base64"): digits 0..63 and the padding sign
RECURSIVE Base64(_)
Base64(bytes) ==
    IF Len(bytes) = 0 THEN <<>>
    ELSE IF Len(bytes) = 1
      THEN << bytes[1] \div 4, (bytes[1] % 4) * 16, Pad64, Pad64 >>
    ELSE IF Len(bytes) = 2
      THEN << bytes[1] \div 4, (bytes[1] % 4) * 16 + bytes[2] \div 16,
              (bytes[2] % 16) * 4, Pad64 >>
    ELSE << bytes[1] \div 4, (bytes[1] % 4) * 16 + bytes[2] \div 16,
            (bytes[2] % 16) * 4 + bytes[3] \div 64, bytes[3] % 64 >>
         \o Base64(SubSeq(bytes, 4, Len(bytes)))

\* atob followed by charCodeAt: the bytes that a base64 text stands for
RECURSIVE Atob(_)
Atob(digits) ==
    IF Len(digits) < 4 THEN <<>>
    ELSE LET first == digits[1] * 4 + digits[2] \div 16
             second == (digits[2] % 16) * 16 + digits[3] \div 4
             third == (digits[3] % 4) * 64 + digits[4]
         IN  IF digits[3] = Pad64 THEN <<first>>
             ELSE IF digits[4] = Pad64 THEN <<first, second>>
             ELSE <<first, second, third>> \o Atob(SubSeq(digits, 5, Len(digits)))

----------------------------------------------------------------------------
(* The handler.  A handler state is the record of the variables a step may *)
(* change; each operator below maps a handler state to its successor.      *)

Cur ==
    [ pc |-> pc, mode |-> mode, voice |-> voice, sourceText |-> sourceText,
      origin |-> origin, script |-> script, log |-> log, responses |-> responses ]

Becomes(st) ==
    /\ pc' = st.pc
    /\ mode' = st.mode
    /\ voice' = st.voice
    /\ sourceText' = st.sourceText
    /\ origin' = st.origin
    /\ script' = st.script
    /\ log' = st.log
    /\ responses' = st.responses
    /\ UNCHANGED <<body, apiKeySet, concVars, clientVars, audioVars>>

\* an entry of the history of stage calls and their outcomes
Event(ev, fn) ==
    [ ev |-> ev, fn |-> fn, text |-> None, url |-> None, voice |-> None,
      bytes |-> <<>>, thrown |-> NonError ]

Logged(st, e) == [st EXCEPT !.log = Append(@, e)]

\* return NextResponse.json(payload, { status })
Respond(st, status, payload) ==
    [st EXCEPT !.pc = "done",
               !.responses = Append(@, [status |-> status, body |-> payload])]

ErrorBody(message) == [error |-> message]

\* a classification that only knows the configuration fault
CatchStatusKeyOnly(message) ==
    IF Includes(message, "OPENAI_API_KEY") THEN 500 ELSE 400

\* a classification that answers network faults with 503
CatchStatusUnavailable(message) ==
    IF Includes(message, "OPENAI_API_KEY") THEN 500
    ELSE IF Includes(message, "Failed to fetch") THEN 503
    ELSE 400

\* the status chosen by the catch block
CatchStatus(message) ==
    IF Includes(message, "OPENAI_API_KEY") \/ Includes(message, "Failed to fetch")
    THEN 500 ELSE 400

\* a catch block that logs the failure and returns nothing
CatchBlockSwallows(st, thrown) == [st EXCEPT !.pc = "done"]

\* catch (error) { ... }
CatchBlock(st, thrown) ==
    LET message == IF thrown.isError THEN thrown.message ELSE MsgUnexpected
    IN  Respond(st, CatchStatus(message), ErrorBody(message))

\* a call inside the try block throws or rejects: control passes to the catch block
Rejected(st, fn, thrown) ==
    CatchBlock(Logged(st, [Event("throw", fn) EXCEPT !.thrown = thrown]), thrown)

\* a length check that only rejects the empty text
TextTooShortOnlyEmpty(text) == StrLen(text) = 0

\* sourceText.length < 50
TextTooShort(text) == StrLen(text) < MinLen

\* !sourceText
SourceMissing(text) == ~IsSome(text) \/ StrLen(text[1]) = 0

\* a script check that only rejects undefined
ScriptMissingIgnoresBlank(s) == ~IsSome(s)

\* !script || script.length === 0
ScriptMissing(s) == ~IsSome(s) \/ StrLen(s[1]) = 0

\* from the guard on sourceText to the call of openai.responses.create
StartGeneration(st) ==
    IF SourceMissing(st.sourceText) THEN Respond(st, 422, ErrorBody(MsgNoSource))
    ELSE IF IsSome(ClientThrows(apiKeySet))
         THEN Rejected(st, "getOpenAIClient", ClientThrows(apiKeySet)[1])
    ELSE Logged([st EXCEPT !.pc = "awaitScript"],
                [Event("call", "responses.create") EXCEPT !.text = st.sourceText,
                                                          !.url = st.origin])

\* a text branch without the length check
TextBranchUnchecked(st, content) ==
    StartGeneration([st EXCEPT !.sourceText =
        Some(Trim(IF IsSome(content) THEN content[1] ELSE EmptyStr))])

\* mode === "text"
TextBranch(st, content) ==
    LET text == Trim(IF IsSome(content) THEN content[1] ELSE EmptyStr)
        st1 == [st EXCEPT !.sourceText = Some(text)]
    IN  IF TextTooShort(text) THEN Respond(st1, 400, ErrorBody(MsgTextTooShort))
        ELSE StartGeneration(st1)

\* a url/video branch that starts the extraction before looking at the field
ExtractBranchCallsFirst(st, target, missing, extractor) ==
    LET st1 == Logged(st, [Event("call", extractor) EXCEPT !.url = target])
    IN  IF ~IsSome(target) THEN Respond(st1, 400, ErrorBody(missing))
        ELSE [st1 EXCEPT !.pc = "awaitExtract", !.origin = target]

\* mode === "url" and mode === "video"
ExtractBranch(st, target, missing, extractor) ==
    IF ~IsSome(target) THEN Respond(st, 400, ErrorBody(missing))
    ELSE Logged([st EXCEPT !.pc = "awaitExtract", !.origin = target],
                [Event("call", extractor) EXCEPT !.url = target])

\* from the destructuring of parsed.data to the end of the mode dispatch
Dispatch(st, b) ==
    LET st1 == [st EXCEPT !.mode = b.json.mode[1], !.voice = ParsedVoice(b)]
    IN  CASE st1.mode = "text" -> TextBranch(st1, b.json.content)
          [] st1.mode = "url" -> ExtractBranch(st1, b.json.url, MsgMissingUrl, "extractFromUrl")
          [] st1.mode = "video" ->
                ExtractBranch(st1, b.json.videoUrl, MsgMissingVideoUrl, "extractFromYouTube")

\* from request.json() to the first await after it
Validate(st, b) ==
    IF b.syntax = "malformed" THEN Rejected(st, "request.json", ErrorOf(MsgJsonSyntax))
    ELSE IF Len(Issues(b)) > 0 THEN Respond(st, 400, ErrorBody(FirstIssueMessage(Issues(b))))
    ELSE Dispatch(st, b)

\* the continuation after await extractFromUrl / extractFromYouTube
AfterExtract(st, fn, text) ==
    StartGeneration(Logged([st EXCEPT !.sourceText = Some(text)],
                           [Event("return", fn) EXCEPT !.text = Some(text)]))

\* the continuation after await openai.responses.create
AfterScript(st, outputText) ==
    LET trimmed == IF IsSome(outputText) THEN Some(Trim(outputText[1])) ELSE None
        st1 == Logged([st EXCEPT !.script = trimmed],
                      [Event("return", "responses.create") EXCEPT !.text = outputText])
    IN  IF ScriptMissing(trimmed) THEN Respond(st1, 502, ErrorBody(MsgNoScript))
        ELSE Logged([st1 EXCEPT !.pc = "awaitSpeech"],
                    [Event("call", "speech.create") EXCEPT !.text = trimmed,
                                                       !.voice = Some(st.voice)])

\* the continuation after await openai.audio.speech.create
AfterSpeech(st) ==
    Logged(Logged([st EXCEPT !.pc = "awaitBuffer"], Event("return", "speech.create")),
           Event("call", "arrayBuffer"))

\* the continuation after await speech.arrayBuffer()
AfterBuffer(st, bytes) ==
    Respond(Logged(st, [Event("return", "arrayBuffer") EXCEPT !.bytes = bytes]),
            200, [script |-> st.script[1], audioBase64 |-> Base64(bytes)])

Extractor(st) == IF st.mode = "url" THEN "extractFromUrl" ELSE "extractFromYouTube"

----------------------------------------------------------------------------
\* the requests that may be in progress together
Reqs == {"A", "B"}

\* the locals of an invocation that has not started
NewFrame ==
    [ pc |-> "idle", mode |-> "none", voice |-> Alloy, sourceText |-> None,
      origin |-> None, script |-> None, log |-> <<>>, responses |-> <<>> ]

NoBody == [syntax |-> "malformed", json |-> NoPayload]

\* the outcome of the last request of the form that completed: none yet
NothingSettled == [id |-> 0, fetched |-> "none", read |-> FALSE]

PcValues ==
    {"idle", "parseBody", "awaitExtract", "awaitScript", "awaitSpeech",
     "awaitBuffer", "done"}

TypeOK ==
    /\ pc \in PcValues
    /\ body \in Bodies
    /\ apiKeySet \in BOOLEAN
    /\ mode \in Modes \cup {"none"}
    /\ Len(responses) <= 1

Init ==
    /\ pc = "idle"
    /\ body = [syntax |-> "malformed", json |-> NoPayload]
    /\ apiKeySet \in BOOLEAN
    /\ mode = "none"
    /\ voice = Alloy
    /\ sourceText = None
    /\ origin = None
    /\ script = None
    /\ log = <<>>
    /\ responses = <<>>
    /\ reqs = [r \in Reqs |-> [body |-> NoBody, st |-> NewFrame]]
    /\ cMode = "text"
    /\ inputs = [m \in Modes |-> EmptyStr]
    /\ cVoice = "alloy"
    /\ loading = FALSE
    /\ seenLoading = FALSE
    /\ error = None
    /\ result = None
    /\ flights = {}
    /\ submits = 0
    /\ settled = NothingSettled
    /\ mounted = TRUE
    /\ base64 = None
    /\ url = None
    /\ updaters = <<>>
    /\ effectDue = TRUE
    /\ cleanup = None
    /\ objects = <<>>

\* a request arrives: POST is invoked and awaits request.json()
Receive ==
    /\ pc = "idle"
    /\ \E b \in Bodies : body' = b
    /\ pc' = "parseBody"
    /\ UNCHANGED <<apiKeySet, mode, voice, sourceText, origin, script, log, responses>>
    /\ UNCHANGED <<concVars, clientVars, audioVars>>

ParseBody ==
    /\ pc = "parseBody"
    /\ Becomes(Validate(Cur, body))

ExtractDone ==
    /\ pc = "awaitExtract"
    /\ \/ \E text \in ExtractorReturns : Becomes(AfterExtract(Cur, Extractor(Cur), text))
       \/ \E e \in ExtractorThrows : Becomes(Rejected(Cur, Extractor(Cur), e))

ScriptDone ==
    /\ pc = "awaitScript"
    /\ \/ \E o \in OutputTexts : Becomes(AfterScript(Cur, o))
       \/ \E e \in ServiceThrows : Becomes(Rejected(Cur, "responses.create", e))

SpeechDone ==
    /\ pc = "awaitSpeech"
    /\ \/ Becomes(AfterSpeech(Cur))
       \/ \E e \in ServiceThrows : Becomes(Rejected(Cur, "speech.create", e))

BufferDone ==
    /\ pc = "awaitBuffer"
    /\ \/ \E bytes \in AudioPayloads : Becomes(AfterBuffer(Cur, bytes))
       \/ \E e \in ServiceThrows : Becomes(Rejected(Cur, "arrayBuffer", e))

Next ==
    \/ Receive
    \/ ParseBody
    \/ ExtractDone
    \/ ScriptDone
    \/ SpeechDone
    \/ BufferDone

Spec == Init /\ [][Next]_vars

\* every awaited promise settles and its continuation is run
FairSpec ==
    /\ Spec
    /\ WF_vars(ParseBody)
    /\ WF_vars(ExtractDone)
    /\ WF_vars(ScriptDone)
    /\ WF_vars(SpeechDone)
    /\ WF_vars(BufferDone)

----------------------------------------------------------------------------
(* Concurrent invocations.  Every invocation of POST has its own locals;   *)
(* the module holds no variable that an invocation writes.  The steps are  *)
(* those of the single invocation, applied to the locals of one request.   *)

\* well-formed requests that differ in source, origin and voice
ConcBodies ==
    { [syntax |-> "object",
       json |-> [NoPayload EXCEPT !.mode = Some("text"),
                                  !.content = Some(Str(MaxPad, MinLen, 1))]],
      [syntax |-> "object",
       json |-> [NoPayload EXCEPT !.mode = Some("video"),
                                  !.voice = Some(Voice(5, {"upper"})),
                                  !.videoUrl = Some("https://youtu.be/abc")]] }

\* locals kept in a module-level variable: the voice of request "A" is seen
\* by every invocation
FrameSharesVoice(all, r) == [all[r].st EXCEPT !.voice = all["A"].st.voice]

\* the locals of the invocation that serves request r
Frame(all, r) == all[r].st

Stored(r, st) ==
    /\ reqs' = [reqs EXCEPT ![r].st = st]
    /\ UNCHANGED <<handlerVars, apiKeySet, clientVars, audioVars>>

ConcReceive(r) ==
    /\ reqs[r].st.pc = "idle"
    /\ \E b \in ConcBodies :
          reqs' = [reqs EXCEPT ![r] = [body |-> b, st |-> [NewFrame EXCEPT !.pc = "parseBody"]]]
    /\ UNCHANGED <<handlerVars, apiKeySet, clientVars, audioVars>>

ConcParseBody(r) ==
    /\ reqs[r].st.pc = "parseBody"
    /\ Stored(r, Validate(Frame(reqs, r), reqs[r].body))

ConcExtractDone(r) ==
    /\ reqs[r].st.pc = "awaitExtract"
    /\ \/ \E text \in ExtractorReturns :
             Stored(r, AfterExtract(Frame(reqs, r), Extractor(Frame(reqs, r)), text))
       \/ \E e \in ExtractorThrows :
             Stored(r, Rejected(Frame(reqs, r), Extractor(Frame(reqs, r)), e))

ConcScriptDone(r) ==
    /\ reqs[r].st.pc = "awaitScript"
    /\ \/ \E o \in OutputTexts : Stored(r, AfterScript(Frame(reqs, r), o))
       \/ \E e \in ServiceThrows : Stored(r, Rejected(Frame(reqs, r), "responses.create", e))

ConcSpeechDone(r) ==
    /\ reqs[r].st.pc = "awaitSpeech"
    /\ \/ Stored(r, AfterSpeech(Frame(reqs, r)))
       \/ \E e \in ServiceThrows : Stored(r, Rejected(Frame(reqs, r), "speech.create", e))

ConcBufferDone(r) ==
    /\ reqs[r].st.pc = "awaitBuffer"
    /\ \/ \E bytes \in AudioPayloads : Stored(r, AfterBuffer(Frame(reqs, r), bytes))
       \/ \E e \in ServiceThrows : Stored(r, Rejected(Frame(reqs, r), "arrayBuffer", e))

ConcNext ==
    \/ \E r \in Reqs : ConcReceive(r)
    \/ \E r \in Reqs : ConcParseBody(r)
    \/ \E r \in Reqs : ConcExtractDone(r)
    \/ \E r \in Reqs : ConcScriptDone(r)
    \/ \E r \in Reqs : ConcSpeechDone(r)
    \/ \E r \in Reqs : ConcBufferDone(r)

ConcSpec == Init /\ [][ConcNext]_vars

----------------------------------------------------------------------------
(* HomePage: the form's state and handleSubmit.  Change, click and submit  *)
(* events are rendered before the next event is handled; the state set by  *)
(* the continuation of an await is rendered by a later step, so the        *)
(* loading flag that handleSubmit reads may lag behind the state.          *)

VoiceIds == {"alloy", "verse", "luna"}

\* what the user may have typed: nothing, whitespace only, or some text
InputTexts == { EmptyStr, Str(1, 0, 0), Str(0, 1, 1) }

\* hasContent: the input of the selected mode is not blank
HasContent(m, ins) == StrLen(Trim(ins[m])) > 0

\* the payload of a successful response
ResultData ==
    { [script |-> Str(0, 1, 0), audioBase64 |-> Base64(<<0>>)],
      [script |-> Str(0, 1 + MaxExtra, 0), audioBase64 |-> Base64(<<255, 77>>)] }

NoData == [script |-> EmptyStr, audioBase64 |-> <<>>]

MsgClientDefault == <<"We could not produce the podcast. Try again with different content.">>

\* what fetch resolves with: an ok response with a payload, or a response
\* that is not ok, with or without an error text in its body
FetchResponses ==
    { [ok |-> TRUE, data |-> d, error |-> None] : d \in ResultData }
    \cup { [ok |-> FALSE, data |-> NoData, error |-> e] :
             e \in {None, Some(MsgTextTooShort), Some(MsgNoSource)} }

NoResponse == [ok |-> FALSE, data |-> NoData, error |-> None]

\* a guard that forgets the loading flag
CanSubmitIgnoresLoading(hasContent, isLoading) == hasContent

\* if (!hasContent || loading) return;
CanSubmit(hasContent, isLoading) == ~(~hasContent \/ isLoading)

\* the end of handleSubmit's try block: setResult(data), or the catch's
\* setError(message); then finally setLoading(false)
Completed(f, outcome) ==
    /\ flights' = flights \ {f}
    /\ loading' = FALSE
    /\ settled' = [id |-> f.id, fetched |-> outcome.fetched, read |-> outcome.read]
    /\ result' = (IF outcome.data # NoData THEN Some(outcome.data) ELSE result)
    /\ error' = (IF IsSome(outcome.message) THEN outcome.message ELSE error)
    /\ UNCHANGED <<cMode, inputs, cVoice, seenLoading, submits>>
    /\ UNCHANGED <<handlerVars, apiKeySet, concVars, audioVars>>

Outcome(fetched, read, data, message) ==
    [fetched |-> fetched, read |-> read, data |-> data, message |-> message]

\* onClick={() => setMode(tab.id)}
SetMode ==
    /\ \E m \in Modes : cMode' = m
    /\ seenLoading' = loading
    /\ UNCHANGED <<inputs, cVoice, loading, error, result, flights, submits, settled>>
    /\ UNCHANGED <<handlerVars, apiKeySet, concVars, audioVars>>

\* onChange of the input that is shown for the selected mode
SetInput ==
    /\ \E t \in InputTexts : inputs' = [inputs EXCEPT ![cMode] = t]
    /\ seenLoading' = loading
    /\ UNCHANGED <<cMode, cVoice, loading, error, result, flights, submits, settled>>
    /\ UNCHANGED <<handlerVars, apiKeySet, concVars, audioVars>>

\* onChange={(e) => setVoice(e.target.value)}
SetVoice ==
    /\ \E v \in VoiceIds : cVoice' = v
    /\ seenLoading' = loading
    /\ UNCHANGED <<cMode, inputs, loading, error, result, flights, submits, settled>>
    /\ UNCHANGED <<handlerVars, apiKeySet, concVars, audioVars>>

\* the render that follows the state changes of a continuation
Render ==
    /\ seenLoading # loading
    /\ seenLoading' = loading
    /\ UNCHANGED <<cMode, inputs, cVoice, loading, error, result, flights, submits, settled>>
    /\ UNCHANGED <<handlerVars, apiKeySet, concVars, audioVars>>

\* a handleSubmit that does not clear the previous result
SubmitKeepsResult ==
    /\ submits < MaxSubmits
    /\ CanSubmit(HasContent(cMode, inputs), seenLoading)
    /\ loading' = TRUE
    /\ seenLoading' = TRUE
    /\ error' = None
    /\ submits' = submits + 1
    /\ flights' = flights \cup
          { [ id |-> submits + 1, stage |-> "fetch", res |-> NoResponse,
              payload |-> [mode |-> cMode, voice |-> cVoice, input |-> inputs[cMode]],
              blank |-> ~HasContent(cMode, inputs), busy |-> loading ] }
    /\ UNCHANGED <<cMode, inputs, cVoice, settled, result>>
    /\ UNCHANGED <<handlerVars, apiKeySet, concVars, audioVars>>

\* handleSubmit up to the call of fetch
Submit ==
    /\ submits < MaxSubmits
    /\ CanSubmit(HasContent(cMode, inputs), seenLoading)
    /\ loading' = TRUE
    /\ seenLoading' = TRUE
    /\ error' = None
    /\ result' = None
    /\ submits' = submits + 1
    /\ flights' = flights \cup
          { [ id |-> submits + 1, stage |-> "fetch", res |-> NoResponse,
              payload |-> [mode |-> cMode, voice |-> cVoice, input |-> inputs[cMode]],
              blank |-> ~HasContent(cMode, inputs), busy |-> loading ] }
    /\ UNCHANGED <<cMode, inputs, cVoice, settled>>
    /\ UNCHANGED <<handlerVars, apiKeySet, concVars, audioVars>>

\* await fetch(...) resolves with a response
FetchResolves ==
    \E f \in flights :
        /\ f.stage = "fetch"
        /\ \E r \in FetchResponses :
              flights' = (flights \ {f}) \cup {[f EXCEPT !.stage = "json", !.res = r]}
        /\ UNCHANGED <<cMode, inputs, cVoice, loading, seenLoading, error, result,
                       submits, settled>>
        /\ UNCHANGED <<handlerVars, apiKeySet, concVars, audioVars>>

\* await fetch(...) rejects: the network is unreachable
FetchRejects ==
    \E f \in flights :
        /\ f.stage = "fetch"
        /\ Completed(f, Outcome("rejected", FALSE, NoData, Some(MsgNetwork)))

\* await res.json() resolves, on either path
BodyRead ==
    \E f \in flights :
        /\ f.stage = "json"
        /\ IF f.res.ok
           THEN Completed(f, Outcome("ok", TRUE, f.res.data, None))
           ELSE Completed(f, Outcome("notok", TRUE, NoData,
                    IF IsSome(f.res.error) THEN f.res.error ELSE Some(MsgClientDefault)))

\* await res.json() rejects: the body cannot be read or parsed
BodyUnreadable ==
    \E f \in flights :
        /\ f.stage = "json"
        /\ IF f.res.ok
           THEN Completed(f, Outcome("ok", FALSE, NoData, Some(MsgJsonSyntax)))
           ELSE Completed(f, Outcome("notok", FALSE, NoData, Some(MsgClientDefault)))

ClientNext ==
    \/ SetMode
    \/ SetInput
    \/ SetVoice
    \/ Render
    \/ Submit
    \/ FetchResolves
    \/ FetchRejects
    \/ BodyRead
    \/ BodyUnreadable

ClientSpec == Init /\ [][ClientNext]_vars

----------------------------------------------------------------------------
(* useAudioUrl: the effect on [base64], its cleanup and the url state.     *)
(* An object URL is a position in objects; a call of setUrl with an        *)
(* updater is queued and applied by the next render.                       *)

\* the values of result?.audioBase64 ?? null: null, the empty text, or audio
Base64Values ==
    { None, Some(<<>>) } \cup { Some(d.audioBase64) : d \in ResultData }

\* !base64
IsBlank(b) == IF IsSome(b) THEN Len(b[1]) = 0 ELSE TRUE

\* URL.revokeObjectURL(target), when there is a target
Revoke(objs, target) ==
    IF IsSome(target) THEN [objs EXCEPT ![target[1]].revoked = TRUE] ELSE objs

\* an effect whose cleanup revokes nothing
EffectCleanupNothing(objs, captured) == objs

\* return () => { URL.revokeObjectURL(objectUrl); }
EffectCleanup(objs, captured) == Revoke(objs, captured)

\* the queued updaters (current) => { if (current) revoke(current); return
\* target; } applied in order to the url state
RECURSIVE ApplyUpdaters(_, _, _)
ApplyUpdaters(queue, current, objs) ==
    IF queue = <<>> THEN [url |-> current, objects |-> objs]
    ELSE ApplyUpdaters(Tail(queue), Head(queue), Revoke(objs, current))

\* the component renders with a new value of result?.audioBase64
PropChange ==
    /\ mounted /\ ~effectDue
    /\ \E b \in Base64Values :
          /\ b # base64
          /\ IsBlank(b) \/ Len(objects) < MaxUrls
          /\ base64' = b
    /\ effectDue' = TRUE
    /\ url' = ApplyUpdaters(updaters, url, objects).url
    /\ objects' = ApplyUpdaters(updaters, url, objects).objects
    /\ updaters' = <<>>
    /\ UNCHANGED <<mounted, cleanup>>
    /\ UNCHANGED <<handlerVars, apiKeySet, concVars, clientVars>>

\* the cleanup of the previous effect, then the effect for the new base64
RunEffect ==
    /\ mounted /\ effectDue
    /\ effectDue' = FALSE
    /\ IF IsBlank(base64)
       THEN /\ objects' = EffectCleanup(objects, cleanup)
            /\ updaters' = Append(updaters, None)
            /\ cleanup' = None
       ELSE /\ objects' = Append(EffectCleanup(objects, cleanup),
                                 [bytes |-> Atob(base64[1]), revoked |-> FALSE])
            /\ updaters' = Append(updaters, Some(Len(objects) + 1))
            /\ cleanup' = Some(Len(objects) + 1)
    /\ UNCHANGED <<mounted, base64, url>>
    /\ UNCHANGED <<handlerVars, apiKeySet, concVars, clientVars>>

\* the render that setUrl asked for
Rerender ==
    /\ mounted /\ ~effectDue
    /\ updaters # <<>>
    /\ url' = ApplyUpdaters(updaters, url, objects).url
    /\ objects' = ApplyUpdaters(updaters, url, objects).objects
    /\ updaters' = <<>>
    /\ UNCHANGED <<mounted, base64, effectDue, cleanup>>
    /\ UNCHANGED <<handlerVars, apiKeySet, concVars, clientVars>>

\* the component unmounts: the last effect's cleanup runs, queued updates
\* are dropped
Unmount ==
    /\ mounted
    /\ mounted' = FALSE
    /\ objects' = EffectCleanup(objects, cleanup)
    /\ cleanup' = None
    /\ updaters' = <<>>
    /\ effectDue' = FALSE
    /\ UNCHANGED <<base64, url>>
    /\ UNCHANGED <<handlerVars, apiKeySet, concVars, clientVars>>

AudioNext ==
    \/ PropChange
    \/ RunEffect
    \/ Rerender
    \/ Unmount

AudioSpec == Init /\ [][AudioNext]_vars

----------------------------------------------------------------------------
(* Vocabulary of the properties *)

Extractors == {"extractFromUrl", "extractFromYouTube"}

Stages == Extractors \cup {"responses.create", "speech.create", "arrayBuffer"}

\* the positions of the history where fn was called
CallsOf(fn) == { i \in DOMAIN log : log[i].ev = "call" /\ log[i].fn = fn }

Called(fns) == \E i \in DOMAIN log : log[i].ev = "call" /\ log[i].fn \in fns

Threw(fns) == \E i \in DOMAIN log : log[i].ev = "throw" /\ log[i].fn \in fns

Answered == pc = "done" /\ Len(responses) = 1

Field(name) == body.json[name]

\* the length of the request's content after trimming, 0 when it is absent
TrimmedContentLen ==
    IF IsSome(Field("content")) THEN Field("content")[1].body ELSE 0

IsTextRequest == pc # "idle" /\ body.syntax = "object" /\ Field("mode") = Some("text")

IsUrlRequest == pc # "idle" /\ body.syntax = "object" /\ Field("mode") = Some("url")

IsVideoRequest == pc # "idle" /\ body.syntax = "object" /\ Field("mode") = Some("video")

VoiceOK ==
    ~IsSome(Field("voice"))
    \/ ( /\ Field("voice")[1].len >= VoiceMin
         /\ Field("voice")[1].len <= VoiceMax
         /\ Field("voice")[1].classes \subseteq {"lower", "upper", "hyphen"} )

ContentOK == ~IsSome(Field("content")) \/ StrLen(Field("content")[1]) >= MinLen

UrlOK(name) == ~IsSome(Field(name)) \/ Field(name)[1] \in ValidUrls

SchemaOK ==
    /\ body.syntax = "object"
    /\ IsSome(Field("mode")) /\ Field("mode")[1] \in Modes
    /\ VoiceOK /\ ContentOK /\ UrlOK("url") /\ UrlOK("videoUrl")

\* the request is one the handler has to reject for a validation reason
InvalidRequest ==
    /\ pc # "idle"
    /\ body.syntax # "malformed"
    /\ \/ ~SchemaOK
       \/ IsTextRequest /\ TrimmedContentLen < MinLen
       \/ IsUrlRequest /\ ~IsSome(Field("url"))
       \/ IsVideoRequest /\ ~IsSome(Field("videoUrl"))

ValidationMessages ==
    { MsgContentMin, MsgTextTooShort, MsgVoiceRegex, MsgVoiceMin, MsgVoiceMax,
      MsgModeRequired, MsgModeEnum, MsgInvalidUrl, MsgExpectedObject,
      MsgInvalidPayload, MsgMissingUrl, MsgMissingVideoUrl }

----------------------------------------------------------------------------
\* C1: validate before I/O.  A request that has to be rejected for a
\* validation reason (schema failure, text shorter than 50 characters,
\* missing url or videoUrl for its mode) never has an extractor, the script
\* generation or the speech synthesis called, and a response that carries a
\* validation message is produced with no call before it.
C1_ValidateBeforeIO ==
    /\ InvalidRequest => ~Called(Stages)
    /\ (Answered /\ InvalidRequest) =>
           /\ responses[1].status = 400
           /\ responses[1].body.error \in ValidationMessages

C1_Witness ==
    /\ Answered
    /\ IsUrlRequest /\ SchemaOK /\ ~IsSome(Field("url"))
    /\ responses[1].body.error = MsgMissingUrl
    /\ log = <<>>

\* C2 (as claimed): when the extractor of a well-formed url or video request
\* fails, by throwing or by returning an empty text, the response has
\* status 422.
ExtractionFailed ==
    \E i \in DOMAIN log :
        /\ log[i].fn \in Extractors
        /\ \/ log[i].ev = "throw"
           \/ log[i].ev = "return" /\ StrLen(log[i].text[1]) = 0

C2_ExtractionFailure422 ==
    (Answered /\ ExtractionFailed) =>
        /\ responses[1].status = 422
        /\ DOMAIN responses[1].body = {"error"}

\* C3 (as claimed): when script generation fails or returns a text that is
\* empty after trimming, the response has status 502 and speech synthesis
\* is not called.
GenerationFailed ==
    \E i \in DOMAIN log :
        /\ log[i].fn = "responses.create"
        /\ \/ log[i].ev = "throw"
           \/ log[i].ev = "return"
              /\ (~IsSome(log[i].text) \/ log[i].text[1].body = 0)

C3_GenerationFailure502 ==
    (Answered /\ GenerationFailed) =>
        /\ responses[1].status = 502
        /\ DOMAIN responses[1].body = {"error"}
        /\ ~Called({"speech.create"})

\* C4 (as claimed): when the script was generated and speech synthesis, or
\* the reading of its audio bytes, fails, the response has status 502.
C4_SynthesisFailure502 ==
    (Answered /\ Threw({"speech.create", "arrayBuffer"})) =>
        /\ responses[1].status = 502
        /\ DOMAIN responses[1].body = {"error"}

\* C5: every request is answered exactly once: there is never more than one
\* response, the handler has finished exactly when there is one, and every
\* request that arrived is eventually answered.
C5_ExactlyOneResponse ==
    /\ [](Len(responses) <= 1)
    /\ [](pc = "done" <=> Len(responses) = 1)
    /\ (pc # "idle" ~> Len(responses) = 1)

C5_Witness ==
    /\ Answered
    /\ Threw({"arrayBuffer"})
    /\ responses[1].status \in {400, 500}

\* C6: stages run in strict sequence, at most once each, and stop at the
\* first failure: no stage is called twice; script generation is called only
\* with a non-empty source text, which in url and video mode is the text the
\* extractor returned just before; speech synthesis is called only with the
\* non-empty trimmed text that script generation returned just before; and
\* no stage is called after a stage threw or returned an empty result.
StageFailedAt(i) ==
    \/ log[i].ev = "throw"
    \/ /\ log[i].ev = "return"
       /\ log[i].fn \in Extractors
       /\ StrLen(log[i].text[1]) = 0
    \/ /\ log[i].ev = "return"
       /\ log[i].fn = "responses.create"
       /\ (~IsSome(log[i].text) \/ log[i].text[1].body = 0)

C6_StageSequencing ==
    /\ \A fn \in Stages : Cardinality(CallsOf(fn)) <= 1
    /\ Cardinality(CallsOf("extractFromUrl") \cup CallsOf("extractFromYouTube")) <= 1
    /\ \A i \in CallsOf("responses.create") :
          /\ IsSome(log[i].text) /\ StrLen(log[i].text[1]) > 0
          /\ IF mode = "text" THEN i = 1
             ELSE /\ i = 3
                  /\ log[1].ev = "call" /\ log[1].fn \in Extractors
                  /\ log[2].ev = "return" /\ log[2].fn = log[1].fn
                  /\ log[2].text = log[i].text
    /\ \A i \in CallsOf("speech.create") :
          /\ i > 1
          /\ log[i - 1].ev = "return" /\ log[i - 1].fn = "responses.create"
          /\ IsSome(log[i - 1].text) /\ log[i - 1].text[1].body > 0
          /\ log[i].text = Some(Str(0, log[i - 1].text[1].body, 0))
          /\ CallsOf("responses.create") # {}
    /\ \A i \in CallsOf("arrayBuffer") :
          i > 1 /\ log[i - 1].ev = "return" /\ log[i - 1].fn = "speech.create"
    /\ \A i, j \in DOMAIN log : (i < j /\ StageFailedAt(i)) => log[j].ev # "call"

C6_Witness ==
    /\ Answered
    /\ mode = "video"
    /\ CallsOf("extractFromYouTube") = {1}
    /\ CallsOf("responses.create") = {3}
    /\ CallsOf("speech.create") = {5}
    /\ responses[1].status = 200

\* C7: every response is either a success, status 200 with exactly script
\* and audioBase64, or an error, a status among 400, 422, 502 and 500 with
\* exactly an error message.
C7_ResponseShape ==
    \A i \in DOMAIN responses :
        \/ /\ responses[i].status = 200
           /\ DOMAIN responses[i].body = {"script", "audioBase64"}
        \/ /\ responses[i].status \in {400, 422, 502, 500}
           /\ DOMAIN responses[i].body = {"error"}

C7_Witness ==
    /\ Answered
    /\ responses[1].status = 200
    /\ responses[1].body.script.body > 0
    /\ Len(responses[1].body.audioBase64) > 0

ShortTextAnswered == Answered /\ IsTextRequest /\ TrimmedContentLen < MinLen

MentionsMinimum(r) == Includes(r.body.error, "50 characters")

C9_Original ==
    ShortTextAnswered =>
        responses[1].status = 400 /\ MentionsMinimum(responses[1])

\* C9 (amended): such a request is answered with status 400 and no stage is
\* called; the message mentions the 50 characters exactly when no violation
\* that the schema reports earlier takes its place, that is when the voice
\* is valid and, if the content itself passes the schema (absent, or 50
\* characters long only through surrounding whitespace), url and videoUrl
\* are valid too.
C9_ShortText400 ==
    ShortTextAnswered =>
        /\ responses[1].status = 400
        /\ DOMAIN responses[1].body = {"error"}
        /\ log = <<>>
        /\ MentionsMinimum(responses[1]) <=>
              (VoiceOK /\ (ContentOK => (UrlOK("url") /\ UrlOK("videoUrl"))))

C9_Witness ==
    /\ ShortTextAnswered
    /\ SchemaOK
    /\ IsSome(Field("content")) /\ StrLen(Field("content")[1]) >= MinLen
    /\ responses[1].body.error = MsgTextTooShort

\* C10 (as claimed): a url request without url, or a video request without
\* videoUrl, is answered with status 400 and a message that names the
\* missing field, and the extractor is never called.
MissingFieldAnswered ==
    /\ Answered
    /\ \/ IsUrlRequest /\ ~IsSome(Field("url"))
       \/ IsVideoRequest /\ ~IsSome(Field("videoUrl"))

NamesMissingField(r) ==
    IF IsUrlRequest THEN Includes(r.body.error, "URL")
    ELSE Includes(r.body.error, "video URL")

C10_Original ==
    MissingFieldAnswered =>
        /\ responses[1].status = 400
        /\ NamesMissingField(responses[1])
        /\ ~Called(Extractors)

\* C10 (amended): such a request is answered with status 400 and the
\* extractor is never called; the message names the missing field exactly
\* when the rest of the payload (voice, content and the other url field)
\* passes the schema, and is the first schema violation's message otherwise.
C10_MissingField400 ==
    MissingFieldAnswered =>
        /\ responses[1].status = 400
        /\ DOMAIN responses[1].body = {"error"}
        /\ ~Called(Stages)
        /\ NamesMissingField(responses[1]) <=> SchemaOK

C10_Witness ==
    /\ MissingFieldAnswered
    /\ IsVideoRequest /\ SchemaOK
    /\ IsSome(Field("url"))
    /\ responses[1].body.error = MsgMissingVideoUrl

\* C11: a failure thrown inside the handler is answered with status 500
\* exactly when its message mentions OPENAI_API_KEY (configuration fault)
\* or "Failed to fetch" (unreachable network), and with status 400 in every
\* other case, a thrown value that is not an Error included.
Caught == \E i \in DOMAIN log : log[i].ev = "throw"

CaughtMessage ==
    IF log[Len(log)].thrown.isError THEN log[Len(log)].thrown.message ELSE <<>>

IsConfigOrNetworkFault(message) ==
    \E i \in DOMAIN message : message[i] \in {"OPENAI_API_KEY", "Failed to fetch"}

C11_FailureClassification ==
    (Answered /\ Caught) =>
        /\ log[Len(log)].ev = "throw"
        /\ IF IsConfigOrNetworkFault(CaughtMessage)
           THEN responses[1].status = 500
           ELSE responses[1].status = 400

C11_Witness ==
    /\ Answered /\ Caught
    /\ log[Len(log)].fn = "speech.create"
    /\ CaughtMessage = MsgNetwork
    /\ responses[1].status = 500

\* C13 (as claimed): in every 200 response the script is non-empty after
\* trimming, and decoding audioBase64 gives exactly the bytes that speech
\* synthesis returned, of which there is at least one.
SynthesisedBytes == log[Len(log)].bytes

C13_UsableContent ==
    (Answered /\ responses[1].status = 200) =>
        /\ responses[1].body.script.body > 0
        /\ responses[1].body.script.lead + responses[1].body.script.trail = 0
        /\ log[Len(log)].ev = "return" /\ log[Len(log)].fn = "arrayBuffer"
        /\ Atob(responses[1].body.audioBase64) = SynthesisedBytes
        /\ Len(SynthesisedBytes) > 0

\* C14 (as claimed): a response with status 500 carries a fixed generic
\* message and not the message of the caught failure.
C14_GenericInternalError ==
    (Answered /\ responses[1].status = 500) =>
        /\ responses[1].body.error = MsgUnexpected
        /\ responses[1].body.error # CaughtMessage

\* C15 (as claimed): a request without voice is synthesised with "alloy"; a
\* voice whose length is outside 2..32 or that contains anything but
\* lower-case letters and hyphens is rejected with 400 before any stage; and
\* speech synthesis is only called with a voice within these constraints.
VoiceLengthOK(v) == v.len >= VoiceMin /\ v.len <= VoiceMax

SpeechVoices == { log[i].voice : i \in CallsOf("speech.create") }

VoiceRule(allowed) ==
    /\ (pc # "idle" /\ body.syntax = "object" /\ ~IsSome(Field("voice")))
          => SpeechVoices \subseteq {Some(Alloy)}
    /\ ( /\ Answered /\ body.syntax = "object" /\ IsSome(Field("voice"))
         /\ ~(VoiceLengthOK(Field("voice")[1]) /\ Field("voice")[1].classes \subseteq allowed) )
          => (responses[1].status = 400 /\ log = <<>>)
    /\ \A v \in SpeechVoices :
          IsSome(v) /\ VoiceLengthOK(v[1]) /\ v[1].classes \subseteq allowed
    /\ (pc # "idle" /\ body.syntax = "object" /\ IsSome(Field("voice")))
          => SpeechVoices \subseteq {Field("voice")}

C15_Original == VoiceRule({"lower", "hyphen"})

\* C15 (amended): the same, with the pattern matched without regard to
\* case: a voice is rejected when its length is outside 2..32 or it contains
\* anything but letters of either case and hyphens, and speech synthesis is
\* only called with the request's voice, or "alloy" when it is absent.
C15_VoiceValidation == VoiceRule({"lower", "upper", "hyphen"})

C15_Witness ==
    /\ Answered /\ responses[1].status = 200
    /\ Field("voice") = Some(Voice(5, {"upper"}))
    /\ SpeechVoices = {Field("voice")}

\* C16: a payload that violates the schema is answered with status 400 and
\* the message of the first violated constraint, in the order mode, voice
\* (minimum length, maximum length, pattern), content, url, videoUrl; the
\* messages of further violations and the fallback text are not used.
FirstViolationMessage ==
    IF body.syntax # "object" THEN MsgExpectedObject
    ELSE IF ~IsSome(Field("mode")) THEN MsgModeRequired
    ELSE IF Field("mode")[1] \notin Modes THEN MsgModeEnum
    ELSE IF IsSome(Field("voice")) /\ Field("voice")[1].len < VoiceMin THEN MsgVoiceMin
    ELSE IF IsSome(Field("voice")) /\ Field("voice")[1].len > VoiceMax THEN MsgVoiceMax
    ELSE IF ~VoiceOK THEN MsgVoiceRegex
    ELSE IF ~ContentOK THEN MsgContentMin
    ELSE MsgInvalidUrl

ViolationCount ==
    Cardinality({ f \in {"mode", "voice", "content", "url", "videoUrl"} :
        \/ f = "mode" /\ ~(IsSome(Field("mode")) /\ Field("mode")[1] \in Modes)
        \/ f = "voice" /\ ~VoiceOK
        \/ f = "content" /\ ~ContentOK
        \/ f \in {"url", "videoUrl"} /\ ~UrlOK(f) })

C16_FirstIssueOnly ==
    (Answered /\ body.syntax # "malformed" /\ ~SchemaOK) =>
        /\ responses[1].status = 400
        /\ DOMAIN responses[1].body = {"error"}
        /\ responses[1].body.error = FirstViolationMessage
        /\ responses[1].body.error # MsgInvalidPayload
        /\ log = <<>>

C16_Witness ==
    /\ Answered /\ body.syntax = "object"
    /\ ViolationCount >= 3
    /\ ~VoiceOK /\ ~ContentOK
    /\ responses[1].body.error = MsgVoiceMax

\* C12: with several requests in progress and their stages completing in
\* any order, every call a request makes carries that request's own data
\* (its url, its source text and origin, its voice, the script returned to
\* it), and its 200 response carries the script and the audio that were
\* returned to its own calls.
OwnVoice(r) ==
    IF IsSome(reqs[r].body.json.voice) THEN reqs[r].body.json.voice ELSE Some(Alloy)

OwnOrigin(r) ==
    IF reqs[r].body.json.mode = Some("url") THEN reqs[r].body.json.url
    ELSE IF reqs[r].body.json.mode = Some("video") THEN reqs[r].body.json.videoUrl
    ELSE None

IsolatedCall(r, i) ==
    LET l == reqs[r].st.log
        b == reqs[r].body.json
    IN  CASE l[i].fn \in Extractors ->
                /\ l[i].url = OwnOrigin(r)
                /\ l[i].fn = (IF b.mode = Some("url") THEN "extractFromUrl"
                              ELSE "extractFromYouTube")
          [] l[i].fn = "responses.create" ->
                /\ l[i].url = OwnOrigin(r)
                /\ IF b.mode = Some("text")
                   THEN l[i].text = Some(Str(0, b.content[1].body, 0))
                   ELSE i > 1 /\ l[i - 1].ev = "return" /\ l[i].text = l[i - 1].text
          [] l[i].fn = "speech.create" ->
                /\ l[i].voice = OwnVoice(r)
                /\ i > 1 /\ l[i - 1].ev = "return"
                /\ l[i].text = Some(Str(0, l[i - 1].text[1].body, 0))
          [] OTHER -> TRUE

IsolatedResponse(r) ==
    LET l == reqs[r].st.log
        a == reqs[r].st.responses[1]
    IN  a.status = 200 =>
           /\ \E i \in DOMAIN l :
                 /\ l[i].ev = "call" /\ l[i].fn = "speech.create"
                 /\ l[i].text = Some(a.body.script)
           /\ l[Len(l)].ev = "return" /\ l[Len(l)].fn = "arrayBuffer"
           /\ a.body.audioBase64 = Base64(l[Len(l)].bytes)

C12_RequestIsolation ==
    \A r \in Reqs :
        /\ \A i \in DOMAIN reqs[r].st.log :
              reqs[r].st.log[i].ev = "call" => IsolatedCall(r, i)
        /\ Len(reqs[r].st.responses) <= 1
        /\ Len(reqs[r].st.responses) = 1 => IsolatedResponse(r)

C12_Witness ==
    /\ \A r \in Reqs : reqs[r].st.pc = "done" /\ reqs[r].st.responses[1].status = 200
    /\ reqs["A"].body.json.mode = Some("text")
    /\ reqs["B"].body.json.mode = Some("video")
    /\ reqs["A"].st.responses[1].body.audioBase64 # reqs["B"].st.responses[1].body.audioBase64
    /\ reqs["A"].st.responses[1].body.script # reqs["B"].st.responses[1].body.script
    /\ reqs["A"].st.sourceText # reqs["B"].st.sourceText

\* C17 (as claimed): error and result are never both set; while a submit is
\* in progress both are cleared; and once it has completed exactly one of
\* them is set, result when the response was ok and error otherwise, and
\* loading is false.
SubmitCompleted == submits > 0 /\ ~loading

SubmitState(resultExpected) ==
    /\ ~(IsSome(error) /\ IsSome(result))
    /\ loading => (error = None /\ result = None /\ Cardinality(flights) = 1)
    /\ (submits = 0) => (error = None /\ result = None /\ ~loading)
    /\ SubmitCompleted =>
          /\ flights = {}
          /\ settled.id = submits
          /\ IsSome(error) # IsSome(result)
          /\ IsSome(result) <=> resultExpected

C17_Original == SubmitState(settled.fetched = "ok")

\* C17 (amended): the same, with result set when the response was ok and
\* its body was read and parsed, and error set otherwise (the fetch failed,
\* the response was not ok, or the body of an ok response was unreadable).
C17_SubmitState == SubmitState(settled.fetched = "ok" /\ settled.read)

C17_Witness ==
    /\ SubmitCompleted
    /\ submits = MaxSubmits
    /\ settled.fetched = "ok" /\ ~settled.read
    /\ error = Some(MsgJsonSyntax) /\ result = None

\* C18: a fetch is issued only when the input of the selected mode is not
\* blank and no request is loading; at most one request of the form is in
\* flight, it belongs to the latest submit, and the result or error shown
\* is that of the latest submit.
C18_SingleFlight ==
    /\ Cardinality(flights) <= 1
    /\ \A f \in flights :
          ~f.blank /\ ~f.busy /\ f.id = submits /\ loading
          /\ StrLen(Trim(f.payload.input)) > 0
    /\ (IsSome(result) \/ IsSome(error)) => (settled.id = submits /\ flights = {})
    /\ settled.id <= submits

C18_Witness ==
    /\ submits = MaxSubmits
    /\ flights = {}
    /\ IsSome(result)
    /\ settled.id = MaxSubmits
    /\ cMode = "video"

\* C19: at most one object URL is un-revoked at any time; once the effect
\* for the current base64 has run, the only URL that may be un-revoked is
\* the one created for the current base64, and none is when base64 is null
\* or empty or the component has unmounted; and once the effect has run and
\* its setUrl has been rendered, the url returned is null or the un-revoked
\* URL of the current base64.
Alive == { i \in DOMAIN objects : ~objects[i].revoked }

EffectSettled == mounted /\ ~effectDue

C19_ObjectUrlLifecycle ==
    /\ Cardinality(Alive) <= 1
    /\ ~mounted => Alive = {}
    /\ EffectSettled =>
          /\ IsBlank(base64) => (Alive = {} /\ cleanup = None)
          /\ ~IsBlank(base64) =>
                /\ IsSome(cleanup) /\ Alive = {cleanup[1]}
                /\ objects[cleanup[1]].bytes = Atob(base64[1])
    /\ (EffectSettled /\ updaters = <<>>) =>
          /\ url = cleanup
          /\ url = None \/ url[1] \in Alive
          /\ IsBlank(base64) <=> url = None

C19_Witness ==
    /\ EffectSettled /\ updaters = <<>>
    /\ Len(objects) = MaxUrls
    /\ url = Some(MaxUrls)
    /\ Alive = {MaxUrls}
    /\ objects[1].revoked /\ objects[2].revoked
    /\ objects[1].bytes # objects[2].bytes
====
